---- MODULE Spec2Model ----
(***************************************************************************)
(* Model of the shipping-service dashboard (deployment/eda.py,             *)
(* deployment/prediction.py, deployment/app.py).                           *)
(*                                                                         *)
(* Three specifications share the variables:                               *)
(*   SpecBins    eda._make_numeric_bins applied to a bounded series        *)
(*   SpecRanges  prediction._get_feature_ranges applied to a dataset       *)
(*   Spec        the Streamlit process: script reruns of app.main, the     *)
(*               two caches, the model artifact resolution                 *)
(*                                                                         *)
(* Numbers.  Series values of the binning model are integer-valued floats; *)
(* a bin edge min + i*(max-min)/n_bins is held exactly, as the integer     *)
(* numerator over the denominator n_bins.  Values of the range model are   *)
(* held in half units and medians in quarter units.                        *)
(***************************************************************************)
EXTENDS Integers, Sequences, FiniteSets, TLC

VARIABLES
    series,      \* _make_numeric_bins: the input pd.Series
    n_bins,      \* _make_numeric_bins: the bin count argument
    binned,      \* _make_numeric_bins: the outcome of the call
    data,        \* the reference dataset: column name -> sequence of values
    ranges,      \* _get_feature_ranges: the returned dict, once returned
    proc,        \* the process: caches, load counters
    env,         \* what the process finds outside: local file, artifacts
    run          \* what the last script rerun did and displayed

vars == <<series, n_bins, binned, data, ranges, proc, env, run>>

(***************************************************************************)
(* Bounds of the checked instances.                                        *)
(***************************************************************************)
MaxLen == 3      \* longest series given to _make_numeric_bins
MaxNeg == 1      \* series values range over -MaxNeg .. MaxVal
MaxVal == 4
MaxBins == 5     \* n_bins ranges over 1 .. MaxBins (5 is the default)
MaxRows == 3     \* most rows of a dataset given to _get_feature_ranges

Abs(x) == IF x < 0 THEN -x ELSE x

RECURSIVE SeqsUpTo(_, _)
\* All sequences over S of length 1..n.
SeqsUpTo(S, n) ==
    IF n = 0 THEN {}
    ELSE SeqsUpTo(S, n - 1) \cup [1..n -> S]

SeqMin(s) == CHOOSE x \in {s[i] : i \in DOMAIN s} : \A j \in DOMAIN s : x <= s[j]
SeqMax(s) == CHOOSE x \in {s[i] : i \in DOMAIN s} : \A j \in DOMAIN s : x >= s[j]

(***************************************************************************)
(* eda.py : _make_numeric_bins                                             *)
(***************************************************************************)

\* Python's f"{x:.0f}" of the float num/den (den > 0): the sign is kept, the
\* magnitude is rounded to the nearest integer, ties to even ("-0" for -0.4).
Fmt0(num, den) ==
    LET a == Abs(num)
        q == a \div den
        r == a % den
        mag == IF 2 * r < den THEN q
               ELSE IF 2 * r > den THEN q + 1
               ELSE IF q % 2 = 0 THEN q ELSE q + 1
    IN [neg |-> num < 0, mag |-> mag]

\* np.linspace(min_v, max_v, n + 1), each edge as its numerator over n.
Linspace(min_v, max_v, n) == [i \in 1..(n + 1) |-> n * min_v + (i - 1) * (max_v - min_v)]

\* labels = [f"{bins[i]:.0f}-{bins[i+1]:.0f}" for i in range(len(bins) - 1)]
BinLabels(bins, den) ==
    [i \in 1..(Len(bins) - 1) |-> <<Fmt0(bins[i], den), Fmt0(bins[i + 1], den)>>]

\* pandas.cut places x (right=True): searchsorted(bins, x, side="left"), the
\* lowest edge moved into the first bin under include_lowest, and 0 (NaN)
\* for a value outside every interval.
CutCode(x, bins, include_lowest) ==
    LET ids == Cardinality({j \in DOMAIN bins : bins[j] < x})
        low == IF include_lowest /\ x = bins[1] THEN 1 ELSE ids
    IN IF low = 0 \/ low = Len(bins) THEN 0 ELSE low

\* The outcome of a call: the Categorical's categories and one code per value
\* (0 is NaN), with the edges pd.cut was given kept beside them; or the raise.
Returned(labels, codes, bins) ==
    [status |-> "returned", categories |-> labels, codes |-> codes, bins |-> bins]
Raised == [status |-> "raised", categories |-> <<>>, codes |-> <<>>, bins |-> <<>>]
Pending == [status |-> "pending", categories |-> <<>>, codes |-> <<>>, bins |-> <<>>]

\* pandas.cut(x, bins, labels, include_lowest): ValueError unless the edges
\* increase strictly, there is one label per interval and the labels are
\* unique (the result is an ordered Categorical); else a code per value.
\* xs and bins are numerators over the same denominator.
Cut(xs, bins, labels, include_lowest) ==
    IF \E i \in 1..(Len(bins) - 1) : bins[i] >= bins[i + 1] THEN Raised
    ELSE IF Len(labels) # Len(bins) - 1 THEN Raised
    ELSE IF \E i, j \in DOMAIN labels : i # j /\ labels[i] = labels[j] THEN Raised
    ELSE Returned(labels, [k \in DOMAIN xs |-> CutCode(xs[k], bins, include_lowest)], bins)

\* A plausible slip: the pad left off the lower edge.
DegenerateBinsNoLowerPad(min_v, max_v) == <<min_v, max_v + 1>>

\* The bins of the all-equal series: bins=[min_v - 1, max_v + 1].
DegenerateBins(min_v, max_v) == <<min_v - 1, max_v + 1>>

MakeNumericBinsResult(s, n) ==
    LET min_v == SeqMin(s)
        max_v == SeqMax(s)
    IN IF min_v = max_v
       THEN Cut(s, DegenerateBins(min_v, max_v), <<Fmt0(min_v, 1)>>, FALSE)
       ELSE LET bins == Linspace(min_v, max_v, n)
            IN Cut([k \in DOMAIN s |-> n * s[k]], bins, BinLabels(bins, n), TRUE)

SeriesSet == SeqsUpTo((-MaxNeg)..MaxVal, MaxLen)

\* A cache_resource slot: empty, or holding the estimator joblib.load returned,
\* where it was loaded from and whether it has predict_proba.
NoModel == [loaded |-> FALSE, origin |-> "none", has_proba |-> FALSE]

\* A process that has just started: both caches empty, nothing read yet.
FreshProc == [data_cache |-> FALSE, model_cache |-> NoModel, csv_reads |-> 0, model_loads |-> 0]

\* The surroundings of a specification that runs no process.
IdleEnv == [local_exists |-> FALSE, has_proba |-> FALSE]

\* What a script rerun leaves: the page, the form's submit state and values,
\* the calls made in order, the record given to the model, the raw class and
\* the probability vector the model answered, the two probabilities read from
\* it (<<>> is None), the elements displayed and the two metric values.
NoRun ==
    [page |-> "none", submitted |-> FALSE, form |-> <<>>, calls |-> <<>>,
     features |-> <<>>, prediction_raw |-> <<>>, proba |-> <<>>, late_prob |-> <<>>,
     on_time_prob |-> <<>>, shown |-> {}, metrics |-> <<>>]
NoRanges == [status |-> "pending", value |-> <<>>]

InitBins ==
    /\ series \in SeriesSet
    /\ n_bins \in 1..MaxBins
    /\ binned = Pending
    /\ data = <<>>
    /\ ranges = NoRanges
    /\ proc = FreshProc
    /\ env = IdleEnv
    /\ run = NoRun

MakeNumericBins ==
    /\ binned.status = "pending"
    /\ binned' = MakeNumericBinsResult(series, n_bins)
    /\ UNCHANGED <<series, n_bins, data, ranges, proc, env, run>>

NextBins == MakeNumericBins

SpecBins == InitBins /\ [][NextBins]_vars

(***************************************************************************)
(* prediction.py : FEATURE_ORDER, _get_feature_ranges                      *)
(***************************************************************************)
FEATURE_ORDER ==
    << "Customer_care_calls", "Cost_of_the_Product", "Prior_purchases",
       "Discount_offered", "Weight_in_gms", "Product_importance" >>

\* FEATURE_ORDER[:-1]: the numeric features, the last one being categorical.
NumericFeatures == SubSeq(FEATURE_ORDER, 1, Len(FEATURE_ORDER) - 1)
NumericFeatureSet == {NumericFeatures[i] : i \in DOMAIN NumericFeatures}

\* The k-th smallest value of s (1-based), as sorting s would place it.
KthSmallest(s, k) ==
    CHOOSE x \in {s[i] : i \in DOMAIN s} :
        /\ Cardinality({i \in DOMAIN s : s[i] < x}) < k
        /\ Cardinality({i \in DOMAIN s : s[i] <= x}) >= k

\* series.median() of values held in half units, as a numerator over 4: the
\* middle value, or the mean of the two middle values of an even-length series.
MedianQ(s) ==
    LET n == Len(s)
    IN IF n % 2 = 1
       THEN 2 * KthSmallest(s, (n + 1) \div 2)
       ELSE KthSmallest(s, n \div 2) + KthSmallest(s, n \div 2 + 1)

\* int(x) of the float num/den: truncation toward zero.
IntCoerce(num, den) == IF num < 0 THEN -((-num) \div den) ELSE num \div den

\* A plausible slip: the minimum and the maximum in each other's place.
FeatureRangeSwapped(s) ==
    << IntCoerce(SeqMax(s), 2), IntCoerce(SeqMin(s), 2), IntCoerce(MedianQ(s), 4) >>

\* (int(series.min()), int(series.max()), int(series.median()))
FeatureRange(s) ==
    << IntCoerce(SeqMin(s), 2), IntCoerce(SeqMax(s), 2), IntCoerce(MedianQ(s), 4) >>

GetFeatureRanges(d) == [c \in NumericFeatureSet |-> FeatureRange(d[c])]

\* Column values of the datasets checked, in half units: -1.5, -0.5, 1.0, 1.5.
RangeValues == {-3, -1, 2, 3}

\* The datasets checked: every pair of equally long columns s, t, laid out
\* over the numeric features alternately.
Dataset(s, t) ==
    [c \in NumericFeatureSet \cup {"Product_importance"} |->
        IF c \in {"Customer_care_calls", "Prior_purchases", "Weight_in_gms"} THEN s
        ELSE IF c = "Product_importance" THEN [i \in DOMAIN s |-> "low"]
        ELSE t]

InitRanges ==
    /\ \E n \in 1..MaxRows :
          \E s \in [1..n -> RangeValues], t \in [1..n -> RangeValues] :
              data = Dataset(s, t)
    /\ ranges = NoRanges
    /\ series = <<>>
    /\ n_bins = 0
    /\ binned = Pending
    /\ proc = FreshProc
    /\ env = IdleEnv
    /\ run = NoRun

GetFeatureRangesCall ==
    /\ ranges.status = "pending"
    /\ ranges' = [status |-> "returned", value |-> GetFeatureRanges(data)]
    /\ UNCHANGED <<series, n_bins, binned, data, proc, env, run>>

NextRanges == GetFeatureRangesCall

SpecRanges == InitRanges /\ [][NextRanges]_vars

\* C9: for every numeric feature of FEATURE_ORDER[:-1] the returned triple
\* (min, max, median), after the integer coercion, has min <= median <= max.
C9_MedianWithinRange ==
    ranges.status = "returned" =>
        /\ DOMAIN ranges.value = NumericFeatureSet
        /\ \A c \in NumericFeatureSet :
              /\ ranges.value[c][1] <= ranges.value[c][3]
              /\ ranges.value[c][3] <= ranges.value[c][2]

\* A dataset with a fractional negative minimum and a fractional median.
C9_Witness ==
    /\ ranges.status = "returned"
    /\ Len(data["Cost_of_the_Product"]) = 2
    /\ SeqMin(data["Cost_of_the_Product"]) = -3
    /\ SeqMax(data["Cost_of_the_Product"]) = 2
    /\ ranges.value["Cost_of_the_Product"] = <<-1, 1, 0>>
    /\ ranges.value["Customer_care_calls"][1] < ranges.value["Customer_care_calls"][2]

(***************************************************************************)
(* app.py : load_data, main;  prediction.py : load_model, model_page       *)
(***************************************************************************)

\* shipping.csv as the checked process finds it (values in half units):
\* two rows, every numeric column with two distinct integers.
ShippingCsv ==
    [c \in NumericFeatureSet \cup {"Product_importance"} |->
        CASE c = "Customer_care_calls" -> <<4, 6>>
          [] c = "Cost_of_the_Product" -> <<192, 194>>
          [] c = "Prior_purchases" -> <<4, 6>>
          [] c = "Discount_offered" -> <<2, 4>>
          [] c = "Weight_in_gms" -> <<2002, 2004>>
          [] OTHER -> <<"low", "high">>]

\* The local artifact may be committed or not; the pipeline stored as
\* best_model_pipeline.joblib (locally or on the hub) is an estimator with or
\* without predict_proba.
EnvSet == [local_exists : BOOLEAN, has_proba : BOOLEAN]

\* predict_proba(features)[0], in percent: [p_late, p_on_time].
ProbaSet == {<<30, 70>>, <<100, 0>>}

\* A plausible slip: the cache decorator left off (every call recomputes).
NeverCached(flag) == FALSE

\* @st.cache_data / @st.cache_resource: a call is served from the cache once
\* the function has returned a value in this process.
CacheHit(flag) == flag

\* load_data(): pd.read_csv on the first call of the process, the cached frame after.
LoadData(p) ==
    IF CacheHit(p.data_cache)
    THEN [proc |-> p, calls |-> <<"load_data">>]
    ELSE [proc |-> [p EXCEPT !.data_cache = TRUE, !.csv_reads = @ + 1],
          calls |-> <<"load_data", "pd.read_csv">>]

\* A plausible slip: the branches of the existence test exchanged.
ModelPathRemoteFirst(local_exists) == IF local_exists THEN "hub" ELSE "local"

\* if LOCAL_MODEL_PATH.exists(): model_path = LOCAL_MODEL_PATH  else: hf_hub_download
ModelPath(local_exists) == IF local_exists THEN "local" ELSE "hub"

\* load_model(): the cached estimator, or the body: the path is resolved, the
\* hub download may fail (fetch_ok = FALSE: the exception leaves the call and
\* nothing is cached), a missing local file cannot be read, joblib.load
\* returns the estimator stored at the path.
LoadModel(p, e, fetch_ok) ==
    IF CacheHit(p.model_cache.loaded)
    THEN [proc |-> p, calls |-> <<"load_model">>, ok |-> TRUE, model |-> p.model_cache]
    ELSE LET path == ModelPath(e.local_exists)
             pre == <<"load_model", "LOCAL_MODEL_PATH.exists">>
         IN IF path = "hub" /\ ~fetch_ok
            THEN [proc |-> p, calls |-> pre \o <<"hf_hub_download">>,
                  ok |-> FALSE, model |-> NoModel]
            ELSE IF path = "local" /\ ~e.local_exists
            THEN [proc |-> p, calls |-> pre \o <<"joblib.load(local)">>,
                  ok |-> FALSE, model |-> NoModel]
            ELSE LET m == [loaded |-> TRUE, origin |-> path, has_proba |-> e.has_proba]
                 IN [proc |-> [p EXCEPT !.model_cache = m, !.model_loads = @ + 1],
                     calls |-> pre \o (IF path = "hub"
                                       THEN <<"hf_hub_download", "joblib.load(hub)">>
                                       ELSE <<"joblib.load(local)">>),
                     ok |-> TRUE, model |-> m]

\* The values the form's widgets can hold: each slider between the column's
\* min and max of _get_feature_ranges, the selectbox among the column's
\* distinct values.
FormInputs(d) ==
    LET r == GetFeatureRanges(d)
        opts == {d["Product_importance"][i] : i \in DOMAIN d["Product_importance"]}
    IN [customer_care_calls : r["Customer_care_calls"][1]..r["Customer_care_calls"][2],
        cost_of_product : r["Cost_of_the_Product"][1]..r["Cost_of_the_Product"][2],
        prior_purchases : r["Prior_purchases"][1]..r["Prior_purchases"][2],
        discount_offered : r["Discount_offered"][1]..r["Discount_offered"][2],
        weight_in_gms : r["Weight_in_gms"][1]..r["Weight_in_gms"][2],
        product_importance : opts]

\* A plausible slip: two values of the row in each other's place.
FeatureRowSwapped(in) ==
    << in.cost_of_product, in.customer_care_calls, in.prior_purchases,
       in.discount_offered, in.weight_in_gms, in.product_importance >>

\* The row of the DataFrame: [[customer_care_calls, cost_of_product, ...]]
FeatureRow(in) ==
    << in.customer_care_calls, in.cost_of_product, in.prior_purchases,
       in.discount_offered, in.weight_in_gms, in.product_importance >>

\* pd.DataFrame([row], columns=FEATURE_ORDER): the one row, as the sequence of
\* its (column, value) cells in column order.
BuildFeatures(in) ==
    [i \in DOMAIN FEATURE_ORDER |-> [column |-> FEATURE_ORDER[i], value |-> FeatureRow(in)[i]]]

\* A plausible slip: the class convention read the other way round.
IsOnTimeInverted(prediction_raw) == prediction_raw = 0

\* is_on_time = prediction_raw == 1
IsOnTime(prediction_raw) == prediction_raw = 1

\* A plausible slip: the two indices exchanged.
LateProbOfSwapped(proba) == proba[2]

\* late_prob = float(proba[0])
LateProbOf(proba) == proba[1]

\* on_time_prob = float(proba[1])
OnTimeProbOf(proba) == proba[2]

\* A plausible slip: the early return of the unsubmitted form left out.
NeverReturnsEarly(submitted) == FALSE

\* if not submitted: st.info(...); return
ReturnsEarly(submitted) == ~submitted

\* model_page(data) after load_data and render_overview have run (ld is
\* LoadData's outcome): the form, the submit gate, the record, load_model,
\* predict, predict_proba when the estimator has it, and what is displayed.
ModelPage(ld, e, in, submitted, raw, proba, fetch_ok) ==
    LET base == [NoRun EXCEPT !.page = "Model Prediction", !.submitted = submitted,
                              !.form = <<in>>, !.calls = ld.calls,
                              !.shown = {"overview", "form"}]
    IN IF ReturnsEarly(submitted)
       THEN [proc |-> ld.proc, run |-> [base EXCEPT !.shown = @ \cup {"info_fill_form"}]]
       ELSE LET features == BuildFeatures(in)
                lm == LoadModel(ld.proc, e, fetch_ok)
                loaded == [base EXCEPT !.features = features, !.calls = @ \o lm.calls]
            IN IF ~lm.ok
               THEN [proc |-> lm.proc, run |-> [loaded EXCEPT !.shown = @ \cup {"exception"}]]
               ELSE LET has == lm.model.has_proba
                        late == IF has THEN <<LateProbOf(proba)>> ELSE <<>>
                        on == IF has THEN <<OnTimeProbOf(proba)>> ELSE <<>>
                        both == on # <<>> /\ late # <<>>
                    IN [proc |-> lm.proc,
                        run |-> [loaded EXCEPT
                           !.calls = @ \o <<"predict">>
                                       \o (IF has THEN <<"predict_proba">> ELSE <<>>),
                           !.prediction_raw = <<raw>>,
                           !.proba = IF has THEN <<proba>> ELSE <<>>,
                           !.late_prob = late,
                           !.on_time_prob = on,
                           !.metrics = IF both THEN <<on[1], late[1]>> ELSE <<>>,
                           !.shown = @ \cup {"prediction_result", "input_summary"}
                               \cup (IF IsOnTime(raw) THEN {"success_on_time"}
                                     ELSE {"error_late"})
                               \cup (IF both
                                     THEN {"metric_on_time_prob", "metric_late_prob",
                                           "caption_estimates"}
                                     ELSE {"caption_no_proba"})]]

Init ==
    /\ data = ShippingCsv
    /\ proc = FreshProc
    /\ env \in EnvSet
    /\ run = NoRun
    /\ series = <<>>
    /\ n_bins = 0
    /\ binned = Pending
    /\ ranges = NoRanges

\* main() with "Data Analysis" selected: load_data, render_overview, eda_page.
RerunDataAnalysis ==
    LET ld == LoadData(proc)
    IN /\ proc' = ld.proc
       /\ run' = [NoRun EXCEPT !.page = "Data Analysis", !.calls = ld.calls,
                               !.shown = {"overview", "eda"}]
       /\ UNCHANGED <<series, n_bins, binned, data, ranges, env>>

\* main() with "Model Prediction" selected and the submit button not pressed.
RerunModelPage ==
    \E in \in FormInputs(data) :
        LET out == ModelPage(LoadData(proc), env, in, FALSE, 0, <<0, 0>>, FALSE)
        IN /\ proc' = out.proc
           /\ run' = out.run
           /\ UNCHANGED <<series, n_bins, binned, data, ranges, env>>

\* The outcomes a download can have in this rerun: it succeeds or fails when
\* load_model will call hf_hub_download, and is not attempted otherwise.
FetchOutcomes(p, e) ==
    IF ~CacheHit(p.model_cache.loaded) /\ ModelPath(e.local_exists) = "hub"
    THEN BOOLEAN ELSE {TRUE}

\* What the estimator of this rerun can answer: a raw class, and a probability
\* vector when it has predict_proba (the answers of a call never made are fixed).
Answers(lm) ==
    IF ~lm.ok THEN {<<0, <<0, 0>>>>}
    ELSE IF lm.model.has_proba THEN {0, 1} \X ProbaSet
    ELSE {0, 1} \X {<<0, 0>>}

\* main() with "Model Prediction" selected and the form submitted.
RerunSubmit ==
    \E in \in FormInputs(data), fetch_ok \in FetchOutcomes(proc, env) :
        \E ans \in Answers(LoadModel(LoadData(proc).proc, env, fetch_ok)) :
            LET out == ModelPage(LoadData(proc), env, in, TRUE, ans[1], ans[2], fetch_ok)
            IN /\ proc' = out.proc
               /\ run' = out.run
               /\ UNCHANGED <<series, n_bins, binned, data, ranges, env>>

\* The process ends and a new one starts (a redeploy may change the artifacts).
Restart ==
    /\ proc' = FreshProc
    /\ env' \in EnvSet
    /\ run' = NoRun
    /\ UNCHANGED <<series, n_bins, binned, data, ranges>>

Next == RerunDataAnalysis \/ RerunModelPage \/ RerunSubmit \/ Restart

Spec == Init /\ [][Next]_vars

(***************************************************************************)
(* Claims about the prediction page and the caches (checked under Spec).   *)
(***************************************************************************)
Called(c) == \E i \in DOMAIN run.calls : run.calls[i] = c
Predicted == run.prediction_raw # <<>>

\* C4: on every submission the record given to the model is one row whose
\* columns are the six trained features in the fixed order, each holding the
\* value entered in that feature's widget.
C4_RecordInFeatureOrder ==
    run.submitted =>
        LET in == run.form[1]
        IN run.features =
              << [column |-> "Customer_care_calls", value |-> in.customer_care_calls],
                 [column |-> "Cost_of_the_Product", value |-> in.cost_of_product],
                 [column |-> "Prior_purchases", value |-> in.prior_purchases],
                 [column |-> "Discount_offered", value |-> in.discount_offered],
                 [column |-> "Weight_in_gms", value |-> in.weight_in_gms],
                 [column |-> "Product_importance", value |-> in.product_importance] >>

C4_Witness ==
    /\ run.submitted
    /\ Predicted
    /\ run.form[1].customer_care_calls = 3
    /\ run.form[1].prior_purchases = 2
    /\ run.form[1].discount_offered = 2
    /\ run.form[1].product_importance = "high"
    /\ run.features[3].value = 2

\* C5: the result displayed follows the raw class alone: raw 1 shows the
\* "on time" result, raw 0 the "late" result, and a submission that reaches
\* the prediction shows exactly one of the two.
C5_LabelFollowsRawClass ==
    /\ (run.submitted /\ ~("exception" \in run.shown)) => Predicted
    /\ Predicted =>
          /\ run.prediction_raw = <<1>> =>
                "success_on_time" \in run.shown /\ ~("error_late" \in run.shown)
          /\ run.prediction_raw = <<0>> =>
                "error_late" \in run.shown /\ ~("success_on_time" \in run.shown)
    /\ ~Predicted => {"success_on_time", "error_late"} \cap run.shown = {}

\* Raw class 0 is shown as late although the on-time probability is the larger.
C5_Witness ==
    /\ run.prediction_raw = <<0>>
    /\ run.on_time_prob = <<70>>
    /\ "error_late" \in run.shown

\* C6: a model with predict_proba gives late = element 0 and on-time =
\* element 1 of its vector; a model without it leaves both probabilities
\* absent (None, not 0.0), shows no probability metric and shows the
\* "does not expose class probabilities" caption.
C6_ProbabilitiesOrAbsent ==
    Predicted =>
        IF proc.model_cache.has_proba
        THEN /\ Called("predict_proba")
             /\ run.late_prob = <<run.proba[1][1]>>
             /\ run.on_time_prob = <<run.proba[1][2]>>
             /\ run.metrics = <<run.proba[1][2], run.proba[1][1]>>
             /\ {"metric_on_time_prob", "metric_late_prob"} \subseteq run.shown
             /\ ~("caption_no_proba" \in run.shown)
        ELSE /\ ~Called("predict_proba")
             /\ run.late_prob = <<>>
             /\ run.on_time_prob = <<>>
             /\ run.metrics = <<>>
             /\ {"metric_on_time_prob", "metric_late_prob"} \cap run.shown = {}
             /\ "caption_no_proba" \in run.shown

C6_Witness ==
    /\ Predicted
    /\ ~proc.model_cache.has_proba
    /\ run.late_prob = <<>>
    /\ "caption_no_proba" \in run.shown
    /\ "success_on_time" \in run.shown

\* C7: load_model is local-first: when the local file exists the model is
\* loaded from the local path and the download is never called; the download
\* is attempted only when the local file is absent; either way what is
\* returned is the estimator read from the resolved path, on which predict is
\* then called.
C7_LocalFirst ==
    /\ Called("hf_hub_download") => ~env.local_exists
    /\ (Called("LOCAL_MODEL_PATH.exists") /\ env.local_exists) =>
          /\ Called("joblib.load(local)")
          /\ ~Called("joblib.load(hub)")
          /\ proc.model_cache.loaded
    /\ proc.model_cache.loaded =>
          proc.model_cache.origin = (IF env.local_exists THEN "local" ELSE "hub")
    /\ (Called("joblib.load(local)") \/ Called("joblib.load(hub)")) =>
          proc.model_cache.loaded /\ Called("predict")

C7_Witness ==
    /\ env.local_exists
    /\ Called("LOCAL_MODEL_PATH.exists")
    /\ Called("joblib.load(local)")
    /\ proc.model_cache.origin = "local"
    /\ Called("predict")

\* C8: a rerun of the prediction page without the submit button pressed calls
\* neither load_model nor predict nor predict_proba and shows no result; a
\* predict call happens only in a rerun that was submitted.
C8_NoPredictionBeforeSubmit ==
    /\ (run.page = "Model Prediction" /\ ~run.submitted) =>
          /\ ~Called("load_model")
          /\ ~Called("predict")
          /\ ~Called("predict_proba")
          /\ ~Predicted
          /\ run.features = <<>>
          /\ {"prediction_result", "success_on_time", "error_late",
              "metric_on_time_prob", "metric_late_prob"} \cap run.shown = {}
          /\ "info_fill_form" \in run.shown
    /\ (Called("predict") \/ Called("predict_proba") \/ Called("load_model")) =>
          run.submitted

\* The form is shown again, unsubmitted, in a process whose model is loaded.
C8_Witness ==
    /\ run.page = "Model Prediction"
    /\ ~run.submitted
    /\ proc.model_cache.loaded
    /\ run.form # <<>>

\* A step keeps what the caches hold: a filled cache stays filled with the
\* same object and nothing is read again.
CachesKept ==
    /\ proc.data_cache => (proc'.data_cache /\ proc'.csv_reads = proc.csv_reads)
    /\ proc.model_cache.loaded =>
          (proc'.model_cache = proc.model_cache /\ proc'.model_loads = proc.model_loads)

\* C10: within one process the dataset file is read at most once and the model
\* artifact is loaded at most once; once loaded, every later call is served
\* from the cache, and only a process restart empties a cache.
C10_LoadOncePerProcess ==
    /\ [](proc.csv_reads <= 1 /\ proc.model_loads <= 1)
    /\ []((proc.csv_reads = 1) = proc.data_cache)
    /\ []((proc.model_loads = 1) = proc.model_cache.loaded)
    /\ [][Restart \/ CachesKept]_vars

\* A later submission served from both caches: load_data and load_model are
\* called and neither the file nor the artifact is read.
C10_Witness ==
    /\ Predicted
    /\ Called("load_data")
    /\ Called("load_model")
    /\ ~Called("pd.read_csv")
    /\ ~Called("LOCAL_MODEL_PATH.exists")
    /\ proc.csv_reads = 1
    /\ proc.model_loads = 1

(***************************************************************************)
(* Claims about _make_numeric_bins (checked under SpecBins).               *)
(***************************************************************************)
BinsCalled == binned.status # "pending"
Min_v == SeqMin(series)
Max_v == SeqMax(series)

\* Point p (a numerator over n_bins) lies in the i-th interval of the edges:
\* (e_(i-1), e_i], the first one closed at the minimum.
InInterval(bins, i, p) ==
    \/ bins[i] < p /\ p <= bins[i + 1]
    \/ i = 1 /\ p = bins[1]

\* C1: with min < max every value of the series gets exactly one bin label
\* (none is NaN), and the n_bins intervals between the equally spaced edges
\* cover [min, max] without gap or overlap.
C1_EveryValueBinned ==
    (BinsCalled /\ Min_v < Max_v) =>
        /\ binned.status = "returned"
        /\ Len(binned.categories) = n_bins
        /\ \A k \in DOMAIN series : binned.codes[k] \in 1..n_bins
        /\ binned.bins[1] = n_bins * Min_v
        /\ binned.bins[n_bins + 1] = n_bins * Max_v
        /\ \A p \in (n_bins * Min_v)..(n_bins * Max_v) :
               Cardinality({i \in 1..n_bins : InInterval(binned.bins, i, p)}) = 1

\* C2: with min < max a value on an interior edge e_i goes to the lower bin
\* (the one ending at e_i), the maximum to the last bin, the minimum to the
\* first bin.
C2_BoundaryToLowerBin ==
    (BinsCalled /\ Min_v < Max_v) =>
        /\ binned.status = "returned"
        /\ \A k \in DOMAIN series :
              /\ series[k] = Min_v => binned.codes[k] = 1
              /\ series[k] = Max_v => binned.codes[k] = n_bins
              /\ \A i \in 2..n_bins :
                    n_bins * series[k] = binned.bins[i] => binned.codes[k] = i - 1

\* C3: an all-equal series (min = max = v) does not raise; the result has the
\* one bin (v-1, v+1], labelled with v rounded to an integer, and every value
\* is in it, whatever n_bins is.
C3_DegenerateSingleBin ==
    (BinsCalled /\ Min_v = Max_v) =>
        /\ binned.status = "returned"
        /\ binned.bins = <<Min_v - 1, Min_v + 1>>
        /\ binned.categories = <<[neg |-> Min_v < 0, mag |-> Abs(Min_v)]>>
        /\ \A k \in DOMAIN series :
              /\ binned.codes[k] = 1
              /\ InInterval(binned.bins, 1, series[k])
              /\ series[k] # binned.bins[1]

C3_Witness ==
    /\ BinsCalled
    /\ Min_v = Max_v
    /\ Len(series) = 3
    /\ n_bins = 5
    /\ binned.status = "returned"

\* C11: with min < max the n_bins labels built by rounding consecutive edges
\* to integers ("low-high") are pairwise distinct, so every bin has a label
\* of its own and the labelled cut returns them as its categories without
\* raising.
C11_LabelsPairwiseDistinct ==
    (BinsCalled /\ Min_v < Max_v) =>
        LET labels == BinLabels(Linspace(Min_v, Max_v, n_bins), n_bins)
        IN /\ Len(labels) = n_bins
           /\ \A i, j \in DOMAIN labels : i # j => labels[i] # labels[j]
           /\ binned.status = "returned"
           /\ binned.categories = labels

====
